---------------------------- MODULE Spec2Model ----------------------------
(***************************************************************************)
(* Deep Research Agent backend: the multi-source research pipeline.        *)
(*                                                                         *)
(* The four tools of backend/src/agui/tools.py (search_google,             *)
(* search_arxiv, create_research_plan, synthesize_answer) and the REST     *)
(* entry point of backend/src/api/routes.py are modelled from their code.  *)
(* The stage sequencer (workflows/group_chat.py, ResearchWorkflow) and the *)
(* result aggregator are not among the source files; they are modelled     *)
(* from sections 4.2 and 4.5 of the design document.                       *)
(*                                                                         *)
(* Python dicts are records; "key in d" is  k \in DOMAIN d.  A text is a   *)
(* sequence of tokens, so that strip() and split() compute.                *)
(***************************************************************************)
EXTENDS Integers, Sequences, FiniteSets, TLC

VARIABLES
    phase,      \* orchestrator state of the query in flight
    request,    \* the accepted ResearchRequest (content, search_sources)
    plan,       \* value returned by the plan generator, or None
    stepIdx,    \* 1-based index of the SearchStep being searched
    pending,    \* backends whose call of the current step is in flight
    returned,   \* tool returns of the current step, in completion order
    ranked,     \* the running RankedResultSet
    audit,      \* the StageResult sequence
    answer,     \* value returned by the synthesizer, or None
    failure,    \* [stage, cause] of a failed query, or None
    calls,      \* how many plan / search / synthesis calls were made
    awaiting,   \* TRUE from the scheduling of a step's calls to their merge
    history,    \* what the collaborators answered, in order (for the properties)
    tcall,      \* one direct invocation of a tool: arguments and outcome
    response,   \* what POST /research answered, or None
    process,    \* the process-wide objects: service handles, workflow instances
    tasks       \* the queries processed concurrently, each with its own state

vars == <<phase, request, plan, stepIdx, pending, returned, ranked, audit,
          answer, failure, calls, awaiting, history, tcall, response, process,
          tasks>>

pipelineVars == <<phase, request, plan, stepIdx, pending, returned, ranked,
                  audit, answer, failure, calls, awaiting, history, response,
                  process, tasks>>

-----------------------------------------------------------------------------
(* Bounds of the model *)

\* longest keyword text the text generation returns, in characters
MaxTextLen == 8
\* longest result list handed to synthesize_answer
MaxResults == 11
\* longest answer text the text generation returns, in tokens
MaxAnswerLen == 1
\* most results one backend call returns in the pipeline
MaxHits == 3

(* Program constants *)

\* search_results[:10]
SynthLimit == 10
\* snippet[:200]
SnippetLimit == 200
\* "confidence": 0.85, in hundredths
Confidence == 85
\* Field(max_length=2000) of ResearchRequest.content
MaxContentLen == 2000
\* confidence=0.8 of the fallback answer, in hundredths
FallbackConfidence == 80
\* Field(min_length=1) of ResearchRequest.content and .search_sources
MinLen == 1
\* the default bound of the RankedResultSet
Cap == 10
\* longest batch of candidates handed to one merge
MaxBatch == 2
\* the caps tried besides the default: 1..MaxCap
MaxCap == 2
\* most items the search provider answers with
MaxItems == 2
\* how many queries are processed concurrently
MaxQueries == 2
\* max_results=min(num_results, 10)
DdgLimit == 10

-----------------------------------------------------------------------------
(* Python values *)

None == [some |-> FALSE]
Some(v) == [some |-> TRUE, val |-> v]

\* dict.get(k, default)
Get(d, k, default) == IF k \in DOMAIN d THEN d[k] ELSE default

Min(a, b) == IF a < b THEN a ELSE b

\* s[:n]
Take(s, n) == SubSeq(s, 1, Min(Len(s), n))

\* s[n:]
Drop(s, n) == SubSeq(s, Min(Len(s), n) + 1, Len(s))

\* all sequences over S of length at most n
RECURSIVE SeqsUpTo(_, _)
SeqsUpTo(S, n) ==
    IF n = 0 THEN {<<>>}
    ELSE LET shorter == SeqsUpTo(S, n - 1)
         IN shorter \cup {Append(s, x) : s \in {t \in shorter : Len(t) = n - 1}, x \in S}

(* A text is a sequence of tokens: white space (a blank, a line break), a  *)
(* word, or a bracketed citation marker [n].                               *)
Tok(kind, s, n) == [kind |-> kind, s |-> s, n |-> n]
SpaceTok == Tok("space", " ", 0)
NewlineTok == Tok("space", "\n", 0)
WordTok == Tok("word", "a", 0)
CiteTok(n) == Tok("cite", "[n]", n)
FixedTok(s) == Tok("word", s, 0)

(* Characters of a keyword text: a letter, a blank, a line break *)
Chars == {WordTok, SpaceTok, NewlineTok}

\* str.isspace() of one character
IsSpace(c) == c.kind = "space"

\* str.lstrip()
RECURSIVE LStrip(_)
LStrip(s) == IF s # <<>> /\ IsSpace(Head(s)) THEN LStrip(Tail(s)) ELSE s

\* str.rstrip()
RECURSIVE RStrip(_)
RStrip(s) ==
    IF s # <<>> /\ IsSpace(s[Len(s)]) THEN RStrip(SubSeq(s, 1, Len(s) - 1)) ELSE s

\* str.strip()
Strip(s) == RStrip(LStrip(s))

\* position of the first line break of s, 0 when there is none
RECURSIVE FindNewline(_, _)
FindNewline(s, i) ==
    IF i > Len(s) THEN 0
    ELSE IF s[i] = NewlineTok THEN i ELSE FindNewline(s, i + 1)

\* str.split('\n'): always at least one piece
RECURSIVE SplitLines(_)
SplitLines(s) ==
    LET i == FindNewline(s, 1)
    IN IF i = 0 THEN <<s>>
       ELSE <<SubSeq(s, 1, i - 1)>> \o SplitLines(SubSeq(s, i + 1, Len(s)))

-----------------------------------------------------------------------------
(* The text-generation capability: chat_completion, then extract_text.     *)
(* One call either raises with a cause or yields a text.                   *)

GenFailed(cause) == [ok |-> FALSE, cause |-> cause]
GenText(t) == [ok |-> TRUE, text |-> t]

(* What a tool invocation does: it returns a value or raises, having made  *)
(* llm_calls calls of the text generation.                                 *)
Returned(v, n) == [raised |-> FALSE, value |-> v, llm_calls |-> n]
Raised(c, n) == [raised |-> TRUE, cause |-> c, llm_calls |-> n]

-----------------------------------------------------------------------------
(* create_research_plan *)

DefaultSources == <<"google", "arxiv">>

\* [k.strip() for k in keywords_text.strip().split('\n') if k.strip()]
Keywords(text) ==
    LET lines == SplitLines(Strip(text))
        stripped == [i \in 1..Len(lines) |-> Strip(lines[i])]
    IN SelectSeq(stripped, LAMBDA k : k # <<>>)

SearchStepsGE(query, keywords, sources) ==
    <<[description |-> <<"Search for main topic: ", query>>,
       keywords |-> Take(keywords, 3),
       sources |-> sources]>>
    \o (IF Len(keywords) >= 3
        THEN <<[description |-> <<"Search for specific aspects and details">>,
                keywords |-> Drop(keywords, 3),
                sources |-> sources]>>
        ELSE <<>>)

\* the main-topic step, and the specific-aspects step when len(keywords) > 3
SearchSteps(query, keywords, sources) ==
    <<[description |-> <<"Search for main topic: ", query>>,
       keywords |-> Take(keywords, 3),
       sources |-> sources]>>
    \o (IF Len(keywords) > 3
        THEN <<[description |-> <<"Search for specific aspects and details">>,
                keywords |-> Drop(keywords, 3),
                sources |-> sources]>>
        ELSE <<>>)

\* the dict of the except branch
PlanError(query, cause, sources) ==
    [query |-> query, error |-> cause, keywords |-> <<>>,
     search_steps |-> <<>>, sources |-> sources]

\* kw, strat: the outcomes of the keyword call and of the strategy call
CreateResearchPlan(query, sources, kw, strat) ==
    LET srcs == IF sources = None THEN DefaultSources ELSE sources.val
    IN IF ~kw.ok THEN Returned(PlanError(query, kw.cause, srcs), 1)
       ELSE LET keywords == Keywords(kw.text)
                search_steps == SearchSteps(query, keywords, srcs)
            IN IF ~strat.ok THEN Returned(PlanError(query, strat.cause, srcs), 2)
               ELSE Returned([query |-> query,
                              strategy |-> Strip(strat.text),
                              keywords |-> keywords,
                              search_steps |-> search_steps,
                              sources |-> srcs], 2)

-----------------------------------------------------------------------------
(* synthesize_answer *)

NoInfoContent ==
    <<FixedTok("I couldn't find relevant information to answer your question.")>>
SynthErrorContent ==
    <<FixedTok("An error occurred while synthesizing the answer.")>>

SourceEntry(i, result) ==
    [index |-> i,
     title |-> Get(result, "title", "Unknown"),
     url |-> Get(result, "url", ""),
     snippet |-> Take(Get(result, "snippet", <<>>), SnippetLimit)]

\* the loop  for i, result in enumerate(search_results[:10], 1)
RECURSIVE SourcesLoop(_, _, _)
SourcesLoop(rest, i, acc) ==
    IF rest = <<>> THEN acc
    ELSE SourcesLoop(Tail(rest), i + 1, Append(acc, SourceEntry(i, Head(rest))))

SourcesUncut(search_results) == SourcesLoop(search_results, 1, <<>>)

SynthSources(search_results) == SourcesLoop(Take(search_results, SynthLimit), 1, <<>>)

\* gen: the outcome of the one synthesis call of the text generation
SynthesizeAnswer(query, search_results, gen) ==
    LET results == IF search_results = None THEN <<>> ELSE search_results.val
    IN IF results = <<>>
       THEN Returned([query |-> query,
                      error |-> "No search results provided",
                      content |-> NoInfoContent,
                      sources |-> <<>>], 0)
       ELSE IF ~gen.ok
       THEN Returned([query |-> query,
                      error |-> gen.cause,
                      content |-> SynthErrorContent,
                      sources |-> <<>>], 1)
       ELSE LET sources == SynthSources(results)
            IN Returned([query |-> query,
                         content |-> Strip(gen.text),
                         sources |-> sources,
                         sources_count |-> Len(sources),
                         confidence |-> Confidence], 1)

-----------------------------------------------------------------------------
(* search_google, search_arxiv *)

\* what service.search(...) does: it raises, or returns SearchResult objects
ServiceFailed(cause) == [raised |-> TRUE, cause |-> cause]
ServiceResults(rs) == [raised |-> FALSE, results |-> rs]

GoogleResultDict(r) ==
    [title |-> r.title, url |-> r.url, snippet |-> r.snippet,
     source |-> r.source, relevance_score |-> r.relevance_score]

ArxivResultDict(r) ==
    [title |-> r.title, url |-> r.url, snippet |-> r.snippet,
     source |-> r.source, relevance_score |-> r.relevance_score,
     authors |-> Get(r, "authors", <<>>),
     published_date |-> Get(r, "published_date", "")]

SearchGoogleRaises(query, svc) ==
    IF svc.raised THEN Raised(svc.cause, 0)
    ELSE LET result_dicts == [i \in 1..Len(svc.results) |-> GoogleResultDict(svc.results[i])]
         IN Returned([query |-> query, source |-> "google",
                      results_count |-> Len(result_dicts),
                      results |-> result_dicts], 0)

SearchGoogle(query, svc) ==
    IF svc.raised
    THEN Returned([query |-> query, source |-> "google", error |-> svc.cause,
                   results_count |-> 0, results |-> <<>>], 0)
    ELSE LET result_dicts == [i \in 1..Len(svc.results) |-> GoogleResultDict(svc.results[i])]
         IN Returned([query |-> query, source |-> "google",
                      results_count |-> Len(result_dicts),
                      results |-> result_dicts], 0)

SearchArxiv(query, svc) ==
    IF svc.raised
    THEN Returned([query |-> query, source |-> "arxiv", error |-> svc.cause,
                   results_count |-> 0, results |-> <<>>], 0)
    ELSE LET result_dicts == [i \in 1..Len(svc.results) |-> ArxivResultDict(svc.results[i])]
         IN Returned([query |-> query, source |-> "arxiv",
                      results_count |-> Len(result_dicts),
                      results |-> result_dicts], 0)

-----------------------------------------------------------------------------
(* Inputs of the direct tool invocations *)

Questions == {"", "q"}

SourceArgs == {None, Some(<<>>), Some(<<"arxiv">>), Some(<<"google", "arxiv">>)}

Causes == {"timeout"}

KeywordTexts == SeqsUpTo(Chars, MaxTextLen)

StrategyTexts == {<<WordTok>>, <<SpaceTok, WordTok, NewlineTok>>}

KeywordOutcomes == {GenFailed(c) : c \in Causes} \cup {GenText(t) : t \in KeywordTexts}

StrategyOutcomes == {GenFailed(c) : c \in Causes} \cup {GenText(t) : t \in StrategyTexts}

\* result dicts as a caller may pass them: one complete, one with only a url
ResultDicts ==
    {[title |-> "T1", url |-> "http://x.com/a", snippet |-> <<WordTok>>],
     [url |-> "http://x.com/b"]}

ResultLists == SeqsUpTo(ResultDicts, MaxResults)

ResultArgs == {None} \cup {Some(l) : l \in ResultLists}

\* markers the text generation may write: [1], [2], and one past the limit
Markers == {1, 2, SynthLimit + 1}

AnswerTokens == {SpaceTok, WordTok} \cup {CiteTok(n) : n \in Markers}

AnswerTexts == SeqsUpTo(AnswerTokens, MaxAnswerLen)

AnswerOutcomes == {GenFailed(c) : c \in Causes} \cup {GenText(t) : t \in AnswerTexts}

Idle == [tool |-> "idle"]

-----------------------------------------------------------------------------
(* The process-wide service handles and the queries in flight *)

ServiceNames == {"google", "arxiv", "openai"}

\* _google_service = None, _arxiv_service = None, _openai_service = None
NoServices ==
    [google |-> [handle |-> None, created |-> 0],
     arxiv |-> [handle |-> None, created |-> 0],
     openai |-> [handle |-> None, created |-> 0],
     workflows |-> 0]

QueryIds == 1..MaxQueries

\* the constructor of the service raises
ConstructorFails(p, name, constructs) == p[name].handle = None /\ ~constructs

\* no check for an existing handle: a new one per call
GetServiceAlways(p, name, constructs) ==
    IF ~constructs THEN p
    ELSE [p EXCEPT ![name] = [handle |-> Some(@.created + 1), created |-> @.created + 1]]

\* global _x_service; if _x_service is None: _x_service = XService()
GetService(p, name, constructs) ==
    IF p[name].handle = None /\ constructs
    THEN [p EXCEPT ![name] = [handle |-> Some(@.created + 1), created |-> @.created + 1]]
    ELSE p

-----------------------------------------------------------------------------
(* The pipeline is at rest while a tool is invoked directly *)

PipelineInit ==
    /\ phase = "IDLE"
    /\ request = None
    /\ plan = None
    /\ stepIdx = 0
    /\ pending = {}
    /\ returned = <<>>
    /\ ranked = <<>>
    /\ audit = <<>>
    /\ answer = None
    /\ failure = None
    /\ calls = [plan |-> 0, search |-> 0, synth |-> 0]
    /\ awaiting = FALSE
    /\ history = <<>>
    /\ response = None
    /\ process = NoServices
    /\ tasks = [q \in QueryIds |-> [pc |-> "idle"]]

(* create_research_plan invoked as a tool *)
InvokeCreateResearchPlan ==
    /\ tcall = Idle
    /\ \E query \in Questions, sources \in SourceArgs,
          kw \in KeywordOutcomes, strat \in StrategyOutcomes :
          tcall' = [tool |-> "create_research_plan",
                    query |-> query, sources |-> sources,
                    kw |-> kw, strat |-> strat,
                    ret |-> CreateResearchPlan(query, sources, kw, strat)]
    /\ UNCHANGED pipelineVars

(* synthesize_answer invoked as a tool *)
InvokeSynthesizeAnswer ==
    /\ tcall = Idle
    /\ \E query \in Questions, search_results \in ResultArgs, gen \in AnswerOutcomes :
          tcall' = [tool |-> "synthesize_answer",
                    query |-> query, search_results |-> search_results,
                    gen |-> gen,
                    ret |-> SynthesizeAnswer(query, search_results, gen)]
    /\ UNCHANGED pipelineVars

ToolInit == PipelineInit /\ tcall = Idle

SpecPlan == ToolInit /\ [][InvokeCreateResearchPlan]_vars

SpecSynth == ToolInit /\ [][InvokeSynthesizeAnswer]_vars

-----------------------------------------------------------------------------
(* ResultAggregator: merge(existing, incoming, cap) *)

\* scheme and host lower-cased, trailing slash and tracking parameters removed
NormalizeUrl(u) ==
    CASE u = "http://x.com/a?utm=1" -> "http://x.com/a"
      [] u = "HTTP://X.com/b/" -> "http://x.com/b"
      [] OTHER -> u

Identity(c) == NormalizeUrl(c.url)

Identities(set) == {Identity(set[i]) : i \in 1..Len(set)}

\* no deduplication: every candidate with a URL is appended
RECURSIVE AppendAll(_, _)
AppendAll(set, incoming) ==
    IF incoming = <<>> THEN set
    ELSE IF Get(Head(incoming), "url", "") = ""
    THEN AppendAll(set, Tail(incoming))
    ELSE AppendAll(Append(set, Head(incoming)), Tail(incoming))

\* last seen wins: a candidate takes the place of the entry of its identity
RECURSIVE AppendLastWins(_, _)
AppendLastWins(set, incoming) ==
    IF incoming = <<>> THEN set
    ELSE LET c == Head(incoming)
         IN IF Get(c, "url", "") = "" THEN AppendLastWins(set, Tail(incoming))
            ELSE IF Identity(c) \in Identities(set)
            THEN AppendLastWins([i \in 1..Len(set) |->
                                    IF Identity(set[i]) = Identity(c) THEN c ELSE set[i]],
                                Tail(incoming))
            ELSE AppendLastWins(Append(set, c), Tail(incoming))

\* steps 1-3: drop the malformed and the already seen, append the rest
RECURSIVE AppendNew(_, _)
AppendNew(set, incoming) ==
    IF incoming = <<>> THEN set
    ELSE LET c == Head(incoming)
         IN IF Get(c, "url", "") = "" \/ Identity(c) \in Identities(set)
            THEN AppendNew(set, Tail(incoming))
            ELSE AppendNew(Append(set, c), Tail(incoming))

\* c goes before the entries of its own score: ties against insertion order
InsertTiesFirst(sorted, c) ==
    LET k == Cardinality({i \in 1..Len(sorted) :
                            sorted[i].relevance_score > c.relevance_score})
    IN SubSeq(sorted, 1, k) \o <<c>> \o SubSeq(sorted, k + 1, Len(sorted))

\* c goes behind every entry whose score is at least its own
InsertByScore(sorted, c) ==
    LET k == Cardinality({i \in 1..Len(sorted) :
                            sorted[i].relevance_score >= c.relevance_score})
    IN SubSeq(sorted, 1, k) \o <<c>> \o SubSeq(sorted, k + 1, Len(sorted))

\* no sorting: the candidates stay as they were appended
KeepOrder(rest, sorted) == sorted \o rest

\* step 4: stable sort by score descending
RECURSIVE StableSortDesc(_, _)
StableSortDesc(rest, sorted) ==
    IF rest = <<>> THEN sorted
    ELSE StableSortDesc(Tail(rest), InsertByScore(sorted, Head(rest)))

\* no step 5: nothing is truncated
MergeUncapped(existing, incoming, cap) ==
    StableSortDesc(AppendNew(existing, incoming), <<>>)

Merge(existing, incoming, cap) ==
    Take(StableSortDesc(AppendNew(existing, incoming), <<>>), cap)

-----------------------------------------------------------------------------
(* What the collaborators may answer to one query *)

G1 == [title |-> "A tracked", url |-> "http://x.com/a?utm=1", snippet |-> <<WordTok>>,
       source |-> "google", relevance_score |-> 9]
G2 == [title |-> "A", url |-> "http://x.com/a", snippet |-> <<WordTok>>,
       source |-> "google", relevance_score |-> 5]
G3 == [title |-> "B", url |-> "HTTP://X.com/b/", snippet |-> <<WordTok>>,
       source |-> "google", relevance_score |-> 5]
X1 == [title |-> "Paper", url |-> "http://arxiv.org/abs/1", snippet |-> <<WordTok>>,
       source |-> "arxiv", relevance_score |-> 7, authors |-> <<"N">>]

\* the page of G1 and G2 as arxiv reports it, scored like G3
X2 == [title |-> "A mirrored", url |-> "http://x.com/a", snippet |-> <<WordTok>>,
       source |-> "arxiv", relevance_score |-> 5, authors |-> <<"N">>]
\* a candidate without a URL
NoUrl == [title |-> "No link", snippet |-> <<WordTok>>,
          source |-> "google", relevance_score |-> 8]

HitsOf(b) == IF b = "google" THEN {G1, G2, G3} ELSE {X1, X2}

NoRepeat(t) == \A i, j \in 1..Len(t) : i # j => t[i] # t[j]

\* a backend call raises, or returns up to MaxHits different hits in some order
ServiceOutcomes(b) ==
    {ServiceFailed(c) : c \in Causes}
    \cup {ServiceResults(rs) : rs \in {t \in SeqsUpTo(HitsOf(b), MaxHits) : NoRepeat(t)}}

TwoKeywords == <<WordTok, NewlineTok, WordTok>>
FourKeywords == <<WordTok, NewlineTok, WordTok, NewlineTok, WordTok, NewlineTok,
                  WordTok, WordTok>>

PipelineKeywordOutcomes ==
    {GenFailed(c) : c \in Causes} \cup {GenText(TwoKeywords), GenText(FourKeywords)}

PipelineStrategyOutcomes == {GenFailed(c) : c \in Causes} \cup {GenText(<<WordTok>>)}

PipelineAnswerOutcomes ==
    {GenFailed(c) : c \in Causes} \cup {GenText(<<WordTok, CiteTok(1)>>)}

RequestSources == {<<>>, <<"google">>, <<"arxiv">>, <<"google", "arxiv">>}

-----------------------------------------------------------------------------
(* merge called on its own: batches are merged into one result set *)

Candidates == {G1, G2, G3, X1, X2, NoUrl}

Batches == SeqsUpTo(Candidates, MaxBatch)

Caps == (1..MaxCap) \cup {Cap}

\* an empty result set with its cap
NewResultSet ==
    /\ tcall = Idle
    /\ \E cap \in Caps :
          tcall' = [tool |-> "merge", cap |-> cap, batches |-> <<>>,
                    before |-> <<>>, set |-> <<>>]
    /\ UNCHANGED pipelineVars

\* set = merge(set, incoming, cap)
MergeInto(incoming) ==
    tcall' = [tcall EXCEPT !.batches = Append(@, incoming),
                           !.before = tcall.set,
                           !.set = Merge(tcall.set, incoming, tcall.cap)]

\* batch A is merged into the empty set
MergeA ==
    /\ tcall.tool = "merge"
    /\ tcall.batches = <<>>
    /\ \E incoming \in Batches : MergeInto(incoming)
    /\ UNCHANGED pipelineVars

\* batch B is merged into what the merge of A left
MergeB ==
    /\ tcall.tool = "merge"
    /\ Len(tcall.batches) = 1
    /\ \E incoming \in Batches : MergeInto(incoming)
    /\ UNCHANGED pipelineVars

SpecMerge == ToolInit /\ [][NewResultSet \/ MergeA \/ MergeB]_vars

-----------------------------------------------------------------------------
(* POST /research: ResearchRequest validation, then the workflow *)

\* content: min_length=1, max_length=2000; search_sources: min_length=1
ValidRequest(content, search_sources) ==
    /\ Len(content) >= MinLen
    /\ Len(content) <= MaxContentLen
    /\ Len(search_sources) >= MinLen

\* an invalid body is refused by the request model; the handler never runs
SubmitResearch ==
    /\ phase = "IDLE"
    /\ tcall = Idle
    /\ \E content \in Questions, search_sources \in RequestSources :
          IF ValidRequest(content, search_sources)
          THEN /\ phase' = "PLANNING"
               /\ request' = Some([content |-> content, search_sources |-> search_sources])
          ELSE /\ phase' = "REJECTED"
               /\ request' = request
    /\ UNCHANGED <<plan, stepIdx, pending, returned, ranked, audit, answer,
                   failure, calls, awaiting, history, tcall, response,
                   process, tasks>>

-----------------------------------------------------------------------------
(* PipelineOrchestrator: PLANNING -> SEARCHING -> SYNTHESIZING -> DONE *)

StageResult(stage, status, detail) == [stage |-> stage, status |-> status, detail |-> detail]

Fail(stage, cause) ==
    /\ phase' = "FAILED"
    /\ failure' = Some([stage |-> stage, cause |-> cause])
    /\ audit' = Append(audit, StageResult(stage, "failed", cause))

Steps == IF plan = None THEN <<>> ELSE plan.val.search_steps

\* " ".join(keywords)
RECURSIVE JoinKeywords(_)
JoinKeywords(keywords) ==
    IF keywords = <<>> THEN <<>>
    ELSE IF Len(keywords) = 1 THEN keywords[1]
    ELSE keywords[1] \o <<SpaceTok>> \o JoinKeywords(Tail(keywords))

SearchTool(b, query, svc) ==
    IF b = "google" THEN SearchGoogle(query, svc) ELSE SearchArxiv(query, svc)

\* PLANNING: the plan generator is invoked once; PlanningFailed is fatal
Plan ==
    /\ phase = "PLANNING"
    /\ \E kw \in PipelineKeywordOutcomes, strat \in PipelineStrategyOutcomes :
          LET r == CreateResearchPlan(request.val.content,
                                      Some(request.val.search_sources), kw, strat)
          IN /\ calls' = [calls EXCEPT !.plan = @ + 1]
             /\ history' = Append(history, [kind |-> "plan", kw |-> kw, strat |-> strat])
             /\ IF r.raised
                THEN /\ Fail("planning", r.cause)
                     /\ UNCHANGED <<plan, stepIdx>>
                ELSE /\ plan' = Some(r.value)
                     /\ stepIdx' = 1
                     /\ phase' = "SEARCHING"
                     /\ audit' = Append(audit, StageResult("planning", "ok", r.value))
                     /\ UNCHANGED failure
    /\ UNCHANGED <<request, pending, returned, ranked, answer, awaiting,
                   tcall, response, process, tasks>>

\* SEARCHING: one concurrent call per backend of the current step
ScheduleStep ==
    /\ phase = "SEARCHING"
    /\ ~awaiting
    /\ stepIdx <= Len(Steps)
    /\ LET sources == Steps[stepIdx].sources
           backends == {sources[i] : i \in 1..Len(sources)}
       IN /\ pending' = backends
          /\ calls' = [calls EXCEPT !.search = @ + Cardinality(backends)]
    /\ awaiting' = TRUE
    /\ returned' = <<>>
    /\ UNCHANGED <<phase, request, plan, stepIdx, ranked, audit, answer, failure,
                   history, tcall, response, process, tasks>>

\* one scheduled call completes: the tool returns what the service answered
CompleteCall ==
    /\ phase = "SEARCHING"
    /\ awaiting
    /\ \E b \in pending :
          \E svc \in ServiceOutcomes(b) :
             LET r == SearchTool(b, JoinKeywords(Steps[stepIdx].keywords), svc)
             IN /\ history' = Append(history, [kind |-> "search", step |-> stepIdx,
                                               backend |-> b, svc |-> svc])
                /\ pending' = pending \ {b}
                /\ IF r.raised
                   THEN /\ Fail("searching", r.cause)
                        /\ UNCHANGED returned
                   ELSE /\ returned' = Append(returned, r.value)
                        /\ UNCHANGED <<phase, failure, audit>>
    /\ UNCHANGED <<request, plan, stepIdx, ranked, answer, calls, awaiting,
                   tcall, response, process, tasks>>

\* the StageResult entry of one returned call
SearchEntry(step, ret) ==
    IF "error" \in DOMAIN ret
    THEN [stage |-> "searching", step |-> step, backend |-> ret.source,
          status |-> "failed", detail |-> ret.error]
    ELSE [stage |-> "searching", step |-> step, backend |-> ret.source,
          status |-> "ok", detail |-> ret.results]

\* only the return that completed last is merged
MergeLast(set, rets) ==
    IF rets = <<>> THEN set ELSE Merge(set, rets[Len(rets)].results, Cap)

RECURSIVE MergeAll(_, _)
MergeAll(set, rets) ==
    IF rets = <<>> THEN set
    ELSE MergeAll(Merge(set, Head(rets).results, Cap), Tail(rets))

\* the step's results are never merged
CanMergeNever == FALSE

\* every call of the step has been awaited
CanMergeEarly == awaiting

CanMerge == awaiting /\ pending = {}

\* the step's returns are merged into the running set, then the next step
MergeStep ==
    /\ phase = "SEARCHING"
    /\ CanMerge
    /\ ranked' = MergeAll(ranked, returned)
    /\ audit' = audit \o [i \in 1..Len(returned) |-> SearchEntry(stepIdx, returned[i])]
    /\ stepIdx' = stepIdx + 1
    /\ awaiting' = FALSE
    /\ returned' = <<>>
    /\ UNCHANGED <<phase, request, plan, pending, answer, failure, calls,
                   history, tcall, response, process, tasks>>

\* every step has been searched and merged
FinishSearch ==
    /\ phase = "SEARCHING"
    /\ ~awaiting
    /\ stepIdx > Len(Steps)
    /\ phase' = "SYNTHESIZING"
    /\ UNCHANGED <<request, plan, stepIdx, pending, returned, ranked, audit, answer,
                   failure, calls, awaiting, history, tcall, response,
                   process, tasks>>

\* SYNTHESIZING: the synthesizer is invoked once; SynthesisFailed is fatal
Synthesize ==
    /\ phase = "SYNTHESIZING"
    /\ \E gen \in PipelineAnswerOutcomes :
          LET r == SynthesizeAnswer(request.val.content, Some(ranked), gen)
          IN /\ calls' = [calls EXCEPT !.synth = @ + 1]
             /\ history' = Append(history, [kind |-> "synth", gen |-> gen,
                                            llm_calls |-> r.llm_calls])
             /\ IF r.raised
                THEN /\ Fail("synthesis", r.cause)
                     /\ UNCHANGED answer
                ELSE /\ answer' = Some(r.value)
                     /\ phase' = "DONE"
                     /\ audit' = Append(audit, StageResult("synthesis", "ok", r.value))
                     /\ UNCHANGED failure
    /\ UNCHANGED <<request, plan, stepIdx, pending, returned, ranked,
                   awaiting, tcall, response, process, tasks>>

\* what execute_query hands to the handler: the agents' results by name
ExecuteQueryResult ==
    [planning |-> [data |-> [research_plan |-> plan.val]],
     research |-> [data |-> [search_results |-> ranked]],
     content |-> [data |-> [synthesized_answer |-> answer.val]]]

\* a failed query is raised to the handler with its stage and cause
ExecuteQueryOutcome ==
    IF phase = "FAILED" THEN Raised(failure.val, 0) ELSE Returned(ExecuteQueryResult, 0)

\* raise HTTPException(status_code=500, detail=...)
HttpError(detail) == [status |-> 500, detail |-> detail]

\* what the handler makes of execute_query's outcome
ResearchResponse(content, outcome) ==
    IF outcome.raised
    THEN HttpError(<<"Research failed: ", outcome.cause.cause>>)
    ELSE LET result == outcome.value
             content_result == Get(result, "content", [data |-> [content |-> <<>>]])
             content_data == Get(content_result, "data", <<>>)
             synthesized_answer == Get(content_data, "synthesized_answer", None)
             answer_text == IF Get(content_data, "content", <<>>) # <<>>
                            THEN content_data.content
                            ELSE Get(content_result, "text", <<>>)
         IN IF "content" \notin DOMAIN result
            THEN HttpError(<<"Failed to generate answer">>)
            ELSE IF synthesized_answer = None /\ answer_text = <<>>
            THEN HttpError(<<"No answer content generated">>)
            ELSE [status |-> 200,
                  content |-> content,
                  answer |-> IF synthesized_answer # None THEN synthesized_answer
                             ELSE [content |-> answer_text, sources |-> <<>>,
                                   confidence |-> FallbackConfidence,
                                   citations |-> <<>>],
                  research_plan |-> result.planning.data.research_plan,
                  search_results |-> result.research.data.search_results]

\* the handler answers the caller once the workflow has ended
Respond ==
    /\ phase \in {"DONE", "FAILED"}
    /\ response = None
    /\ response' = Some(ResearchResponse(request.val.content, ExecuteQueryOutcome))
    /\ UNCHANGED <<phase, request, plan, stepIdx, pending, returned, ranked, audit,
                   answer, failure, calls, awaiting, history, tcall, process,
                   tasks>>

Init == PipelineInit /\ tcall = Idle

Next ==
    \/ SubmitResearch
    \/ Plan
    \/ ScheduleStep
    \/ CompleteCall
    \/ MergeStep
    \/ FinishSearch
    \/ Synthesize
    \/ Respond

Spec == Init /\ [][Next]_vars

-----------------------------------------------------------------------------
(* DuckDuckGoSearchService: search, search_with_keywords *)

\* what self.ddgs.text(...) does: it raises, or returns items
ProviderFailed(cause) == [raised |-> TRUE, cause |-> cause]
ProviderItems(items) == [raised |-> FALSE, items |-> items]

\* raise Exception(f"DuckDuckGo Search error: {str(e)}") from e
SearchError(e) ==
    [raised |-> TRUE,
     error |-> [message |-> <<"DuckDuckGo Search error: ", e>>, cause |-> e]]

SearchReturned(search_results) == [raised |-> FALSE, value |-> search_results]

\* SearchResult(query_id=..., source=DUCKDUCKGO, title=..., url=..., snippet=...)
DdgSearchResult(query_id, item) ==
    [query_id |-> query_id, source |-> "duckduckgo",
     title |-> Get(item, "title", ""),
     url |-> Get(item, "href", ""),
     snippet |-> Get(item, "body", "")]

\* the SearchResult model refuses the item (validates), or takes any url
Refused(item, validates) == validates /\ Get(item, "href", "") = ""

\* a failure of the provider is answered with no results
DuckDuckGoSearchSwallows(query, query_id, num_results, provider, validates) ==
    IF provider.raised THEN SearchReturned(<<>>)
    ELSE LET results == Take(provider.items, Min(num_results, DdgLimit))
         IN SearchReturned([i \in 1..Len(results) |-> DdgSearchResult(query_id, results[i])])

DuckDuckGoSearch(query, query_id, num_results, provider, validates) ==
    IF provider.raised THEN SearchError(provider.cause)
    ELSE LET results == Take(provider.items, Min(num_results, DdgLimit))
         IN IF \E i \in 1..Len(results) : Refused(results[i], validates)
            THEN SearchError("validation")
            ELSE SearchReturned([i \in 1..Len(results) |->
                                    DdgSearchResult(query_id, results[i])])

DuckDuckGoSearchWithKeywords(query_id, keywords, max_results, provider, validates) ==
    DuckDuckGoSearch(JoinKeywords(keywords), query_id, max_results, provider, validates)

Items == {[title |-> "T", href |-> "http://x.com/a", body |-> "B"],
          [title |-> "T"],
          [href |-> "http://x.com/b"]}

ProviderOutcomes ==
    {ProviderFailed(c) : c \in Causes \cup {"ratelimit"}}
    \cup {ProviderItems(t) : t \in SeqsUpTo(Items, MaxItems)}

NumResults == {1, 2, DdgLimit + 1}

KeywordLists == {<<>>, <<(<<WordTok>>)>>, <<(<<WordTok>>), (<<WordTok>>)>>}

(* search called on the service *)
InvokeSearch ==
    /\ tcall = Idle
    /\ \E query \in {<<>>, <<WordTok>>}, num_results \in NumResults,
          provider \in ProviderOutcomes, validates \in BOOLEAN :
          tcall' = [tool |-> "search", query |-> query, num_results |-> num_results,
                    provider |-> provider, validates |-> validates,
                    ret |-> DuckDuckGoSearch(query, "id", num_results, provider,
                                             validates)]
    /\ UNCHANGED pipelineVars

(* search_with_keywords called on the service *)
InvokeSearchWithKeywords ==
    /\ tcall = Idle
    /\ \E keywords \in KeywordLists, max_results \in NumResults,
          provider \in ProviderOutcomes, validates \in BOOLEAN :
          tcall' = [tool |-> "search_with_keywords", keywords |-> keywords,
                    num_results |-> max_results,
                    provider |-> provider, validates |-> validates,
                    ret |-> DuckDuckGoSearchWithKeywords("id", keywords, max_results,
                                                         provider, validates)]
    /\ UNCHANGED pipelineVars

SpecSearch == ToolInit /\ [][InvokeSearch \/ InvokeSearchWithKeywords]_vars

-----------------------------------------------------------------------------
(* Queries processed concurrently on one event loop *)

\* the tools a query runs, by the service each one gets
Stages == <<"openai", "google", "arxiv">>

\* what the service answers to the tool of one query
QueryOutcomes(name) ==
    IF name = "openai"
    THEN {[kw |-> GenText(TwoKeywords), strat |-> GenText(<<WordTok>>)]}
    ELSE IF name = "google"
    THEN {ServiceFailed("timeout"), ServiceResults(<<G1>>)}
    ELSE {ServiceFailed("timeout"), ServiceResults(<<X2>>)}

\* the outcome the tool sees when the service cannot be constructed
NotConstructed(name) ==
    IF name = "openai"
    THEN [kw |-> GenFailed("config"), strat |-> GenFailed("config")]
    ELSE ServiceFailed("config")

\* what the tool hands back for that outcome
ToolReturn(name, query, outcome) ==
    IF name = "openai" THEN CreateResearchPlan(query, None, outcome.kw, outcome.strat).value
    ELSE IF name = "google" THEN SearchGoogle(query, outcome).value
    ELSE SearchArxiv(query, outcome).value

restVars == <<phase, request, plan, stepIdx, pending, returned, ranked, audit,
              answer, failure, calls, awaiting, history, response, tcall>>

\* workflow = ResearchWorkflow(): a new instance for every request
AcceptQuery(q) ==
    /\ tcall = Idle
    /\ phase = "IDLE"
    /\ tasks[q].pc = "idle"
    /\ process' = [process EXCEPT !.workflows = @ + 1]
    /\ tasks' = [tasks EXCEPT ![q] = [pc |-> "running", query |-> "q",
                                      workflow |-> process.workflows + 1,
                                      stage |-> 1, calling |-> FALSE,
                                      handles |-> <<>>, outcomes |-> <<>>,
                                      rets |-> <<>>]]
    /\ UNCHANGED restVars

\* the outcome of a tool is kept in the query's own state
Answered(t, outcome) ==
    LET stage == t.stage + 1
    IN [t EXCEPT !.outcomes = Append(@, outcome),
                 !.rets = Append(@, ToolReturn(Stages[t.stage], t.query, outcome)),
                 !.stage = stage,
                 !.calling = FALSE,
                 !.pc = IF stage > Len(Stages) THEN "done" ELSE "running"]

\* a tool gets its service and awaits the call; a constructor that raises
\* lands in the tool's except branch
CallTool(q) ==
    /\ tasks[q].pc = "running"
    /\ ~tasks[q].calling
    /\ LET name == Stages[tasks[q].stage]
       IN \E constructs \in BOOLEAN :
             IF ConstructorFails(process, name, constructs)
             THEN /\ tasks' = [tasks EXCEPT ![q] = Answered(@, NotConstructed(name))]
                  /\ UNCHANGED process
             ELSE /\ process' = GetService(process, name, constructs)
                  /\ tasks' = [tasks EXCEPT
                                  ![q].calling = TRUE,
                                  ![q].handles = Append(@, [name |-> name,
                                                            handle |-> process'[name].handle])]
    /\ UNCHANGED restVars

\* the awaited call completes and the tool returns
ToolReturns(q) ==
    /\ tasks[q].pc = "running"
    /\ tasks[q].calling
    /\ \E outcome \in QueryOutcomes(Stages[tasks[q].stage]) :
          tasks' = [tasks EXCEPT ![q] = Answered(@, outcome)]
    /\ UNCHANGED <<process, restVars>>

QueriesNext == \E q \in QueryIds : AcceptQuery(q) \/ CallTool(q) \/ ToolReturns(q)

SpecQueries == ToolInit /\ [][QueriesNext]_vars

-----------------------------------------------------------------------------
(* Properties of the pipeline (Spec) *)

SearchCalls == {i \in 1..Len(history) : history[i].kind = "search"}

\* the audit trail holds a failed entry for that backend call
RecordedFailed(h) ==
    \E k \in 1..Len(audit) :
        /\ audit[k].stage = "searching"
        /\ audit[k].status = "failed"
        /\ audit[k].step = h.step
        /\ audit[k].backend = h.backend
        /\ audit[k].detail = h.svc.cause

\* every candidate the call returned is in the ranked set, unless the set is full
Ranked(h) ==
    \A j \in 1..Len(h.svc.results) :
        \/ Identity(h.svc.results[j]) \in Identities(ranked)
        \/ Len(ranked) = Cap

\* the tool handed the call's outcome back to the orchestrator as a value
HandedBack(h) ==
    \E k \in 1..Len(returned) :
        /\ returned[k].source = h.backend
        /\ ("error" \in DOMAIN returned[k]) = h.svc.raised

BackendFailed == \E i \in SearchCalls : history[i].svc.raised

\* the SEARCHING stage is not stuck: a call can complete, the step can be
\* merged (MergeStep asks for no more than CanMerge), or the next stage begun
CanGoOn == CanMerge \/ ENABLED (CompleteCall \/ ScheduleStep \/ FinishSearch)

C1_Recorded ==
    /\ failure # None => failure.val.stage # "searching"
    /\ (BackendFailed /\ phase = "SEARCHING") => CanGoOn
    /\ \A i \in SearchCalls :
          LET h == history[i]
          IN /\ (h.step = stepIdx /\ phase = "SEARCHING") => HandedBack(h)
             /\ (h.step < stepIdx /\ h.svc.raised) => RecordedFailed(h)
             /\ (h.step < stepIdx /\ ~h.svc.raised) => Ranked(h)

\* a SEARCHING stage in which a backend failed is left for SYNTHESIZING only
C1_Leave ==
    (BackendFailed' /\ phase = "SEARCHING" /\ phase' # "SEARCHING") =>
        phase' = "SYNTHESIZING"

(* C1: a backend call that fails within a SEARCHING step is recorded as a  *)
(* failed entry naming that backend and is not propagated; the candidates  *)
(* of the backends that succeeded are in the ranked set, and the pipeline  *)
(* still reaches SYNTHESIZING: the stage can always go on and is left for  *)
(* SYNTHESIZING only.                                                      *)
C1_PartialFailure == []C1_Recorded /\ [][C1_Leave]_vars

\* google returned three hits, arxiv failed in the same step, and the
\* pipeline is SYNTHESIZING with google's hits ranked
C1_Witness ==
    /\ phase = "SYNTHESIZING"
    /\ \E i, j \in SearchCalls :
          /\ history[i].step = history[j].step
          /\ history[i].backend = "arxiv" /\ history[i].svc.raised
          /\ history[j].backend = "google" /\ ~history[j].svc.raised
          /\ Len(history[j].svc.results) = 3
          /\ RecordedFailed(history[i])
          /\ Ranked(history[j])
    /\ Len(ranked) = 2

PlanningFailed ==
    \E i \in 1..Len(history) :
        history[i].kind = "plan" /\ (~history[i].kw.ok \/ ~history[i].strat.ok)

SynthesisFailed ==
    \E i \in 1..Len(history) :
        history[i].kind = "synth" /\ history[i].llm_calls > 0 /\ ~history[i].gen.ok

(* C2: the query fails if and only if PLANNING or SYNTHESIZING fails: a    *)
(* planning failure ends it in FAILED with stage=planning and without any  *)
(* search or synthesis call, a synthesis failure ends it in FAILED with    *)
(* stage=synthesis, and otherwise a composite result is returned.          *)
C2_FailsIffPlanningOrSynthesisFails ==
    /\ PlanningFailed =>
          /\ phase = "FAILED" /\ failure.val.stage = "planning"
          /\ calls.search = 0 /\ calls.synth = 0
    /\ SynthesisFailed => (phase = "FAILED" /\ failure.val.stage = "synthesis")
    /\ phase = "FAILED" => (PlanningFailed \/ SynthesisFailed)
    /\ phase = "DONE" => (plan # None /\ answer # None /\ audit # <<>>)

\* the calls of every step before the current one have all completed
StepsComplete ==
    \A k \in 1..(stepIdx - 1) :
        k <= Len(Steps) =>
            \A i \in 1..Len(Steps[k].sources) :
                \E j \in SearchCalls :
                    history[j].step = k /\ history[j].backend = Steps[k].sources[i]

C3_Order ==
    /\ (calls.search > 0 \/ pending # {} \/ awaiting) =>
          (plan # None /\ calls.plan = 1 /\ phase # "PLANNING")
    /\ \A i \in SearchCalls : history[i].step = stepIdx \/ history[i].step < stepIdx
    /\ StepsComplete
    /\ (calls.synth > 0 \/ phase \in {"SYNTHESIZING", "DONE"}) =>
          (stepIdx = Len(Steps) + 1 /\ pending = {} /\ ~awaiting /\ returned = <<>>)

\* a merge, and the move to the next step, happen with no call in flight;
\* calls are scheduled only when the step before is merged
C3_Step ==
    /\ (ranked' # ranked \/ (stepIdx > 0 /\ stepIdx' # stepIdx)) =>
          (awaiting /\ pending = {})
    /\ (pending' \ pending # {}) => (~awaiting /\ pending = {} /\ plan # None)

(* C3: no backend search call is scheduled before the complete plan is     *)
(* available; all calls of the current step are awaited before the step's  *)
(* results are merged and before the next step starts; the synthesizer is  *)
(* never invoked before the merges of every step have completed.           *)
C3_StageOrdering == []C3_Order /\ [][C3_Step]_vars

\* two steps over two backends were searched and merged before synthesis
C3_Witness ==
    /\ phase = "SYNTHESIZING"
    /\ Len(Steps) = 2
    /\ Cardinality(SearchCalls) = 4
    /\ ranked # <<>>

\* the caller was answered with an error that names the stage and the cause
StructuredError(r, stage, cause) ==
    /\ r.status # 200
    /\ "stage" \in DOMAIN r
    /\ r.stage = stage
    /\ "cause" \in DOMAIN r
    /\ r.cause = cause

\* the cause of the text-generation call that failed in the plan generator
PlanningCause ==
    LET h == history[CHOOSE i \in 1..Len(history) : history[i].kind = "plan"]
    IN IF ~h.kw.ok THEN h.kw.cause ELSE h.strat.cause

SynthesisCause ==
    history[CHOOSE i \in 1..Len(history) : history[i].kind = "synth"].gen.cause

(* C11: a failed query is reported to the caller as a structured error     *)
(* that identifies the failing stage (planning or synthesis) and the       *)
(* cause; a degraded query, in which a backend was unavailable but an      *)
(* answer was produced, is reported as a success, so the two differ.       *)
C11_FailureReported ==
    response # None =>
        /\ PlanningFailed => StructuredError(response.val, "planning", PlanningCause)
        /\ (SynthesisFailed /\ ~PlanningFailed) =>
              StructuredError(response.val, "synthesis", SynthesisCause)
        /\ (~PlanningFailed /\ ~SynthesisFailed) => response.val.status = 200

-----------------------------------------------------------------------------
(* Properties of create_research_plan (SpecPlan) *)

PlanCalled == tcall.tool = "create_research_plan"

\* the backend selection the tool works with
EffectiveSources == IF tcall.sources = None THEN DefaultSources ELSE tcall.sources.val

\* the cause of the first text-generation call that failed
PlanCause == IF ~tcall.kw.ok THEN tcall.kw.cause ELSE tcall.strat.cause

PlanGenFailed == PlanCalled /\ (~tcall.kw.ok \/ ~tcall.strat.ok)

(* C4: the first SearchStep holds the first 3 keywords (all of them when   *)
(* there are fewer than 4); a second SearchStep exists exactly when more   *)
(* than 3 keywords were returned and holds the remaining keywords in       *)
(* order; both steps carry the full backend selection.                     *)
C4_PlanConstruction ==
    (PlanCalled /\ tcall.kw.ok /\ tcall.strat.ok) =>
        LET p == tcall.ret.value
            kws == p.keywords
            steps == p.search_steps
            n == Len(kws)
        IN /\ ~tcall.ret.raised
           /\ Len(steps) = (IF n > 3 THEN 2 ELSE 1)
           /\ Len(steps[1].keywords) = Min(n, 3)
           /\ \A i \in 1..Min(n, 3) : steps[1].keywords[i] = kws[i]
           /\ n > 3 =>
                /\ Len(steps[2].keywords) = n - 3
                /\ \A i \in 1..(n - 3) : steps[2].keywords[i] = kws[3 + i]
           /\ \A i \in 1..Len(steps) : steps[i].sources = EffectiveSources

\* four keywords, the fourth unlike the first: two steps
C4_Witness ==
    /\ PlanCalled /\ tcall.kw.ok /\ tcall.strat.ok
    /\ Len(tcall.ret.value.keywords) = 4
    /\ tcall.ret.value.keywords[4] # tcall.ret.value.keywords[1]
    /\ Len(tcall.ret.value.search_steps) = 2
    /\ tcall.ret.value.search_steps[2].keywords = <<tcall.ret.value.keywords[4]>>

(* C5: when the text generation fails at the keyword call or at the        *)
(* strategy call, plan generation fails with PlanningFailed carrying the   *)
(* cause; no plan-shaped value is returned.                                *)
C5_PlanAllOrNothing ==
    PlanGenFailed => (tcall.ret.raised /\ tcall.ret.cause = PlanCause)

(* C10: a query with an empty question or an empty backend selection is    *)
(* rejected before planning: no plan-generation call is made for it, on    *)
(* the REST entry point and on the plan tool alike.                        *)
C10_InvalidQueryRejected ==
    /\ (PlanCalled /\ (tcall.query = "" \/ tcall.sources = Some(<<>>))) =>
           (tcall.ret.raised /\ tcall.ret.llm_calls = 0)
    /\ phase = "REJECTED" => calls = [plan |-> 0, search |-> 0, synth |-> 0]

-----------------------------------------------------------------------------
(* Properties of synthesize_answer (SpecSynth) *)

SynthCalled == tcall.tool = "synthesize_answer"

\* the result list the tool works with
GivenResults == IF tcall.search_results = None THEN <<>> ELSE tcall.search_results.val

\* the indices of the bracketed markers of a text
CitedIn(content) == {content[i].n : i \in {j \in 1..Len(content) : content[j].kind = "cite"}}

\* the indices of a citation sequence
IndicesOf(sources) == {sources[i].index : i \in 1..Len(sources)}

(* C6: for an empty or absent result set, synthesis returns the fixed "no  *)
(* information found" content with no citations, makes no text-generation  *)
(* call, and the outcome is a successful answer: it carries no error.      *)
C6_EmptyShortCircuit ==
    (SynthCalled /\ GivenResults = <<>>) =>
        /\ ~tcall.ret.raised
        /\ tcall.ret.llm_calls = 0
        /\ tcall.ret.value.content = NoInfoContent
        /\ tcall.ret.value.sources = <<>>
        /\ "error" \notin DOMAIN tcall.ret.value

(* C7: when the text generation fails during synthesis, synthesis fails    *)
(* with SynthesisFailed carrying the cause; it returns no answer.          *)
C7_SynthesisFails ==
    (SynthCalled /\ GivenResults # <<>> /\ ~tcall.gen.ok) =>
        (tcall.ret.raised /\ tcall.ret.cause = tcall.gen.cause)

(* C8: for a non-empty result list of length L, a successful synthesis     *)
(* returns min(L, 10) citations with the indices 1, 2, ..., min(L, 10) in  *)
(* order, and the citation with index i refers to the i-th input entry.    *)
C8_CitationIndices ==
    (SynthCalled /\ GivenResults # <<>> /\ tcall.gen.ok) =>
        LET srcs == tcall.ret.value.sources
            n == Min(Len(GivenResults), SynthLimit)
        IN /\ ~tcall.ret.raised
           /\ Len(srcs) = n
           /\ \A i \in 1..Len(srcs) :
                /\ srcs[i].index = i
                /\ i <= Len(GivenResults)
                /\ srcs[i].url = Get(GivenResults[i], "url", "")
                /\ srcs[i].title = Get(GivenResults[i], "title", "Unknown")

\* more results than the limit, the first and the last of them unlike
C8_Witness ==
    /\ SynthCalled /\ tcall.gen.ok
    /\ Len(GivenResults) > SynthLimit
    /\ GivenResults[1] # GivenResults[SynthLimit]
    /\ Len(tcall.ret.value.sources) = SynthLimit
    /\ tcall.ret.value.sources[SynthLimit].index = SynthLimit

(* C9: every bracketed citation index used in the content of a produced    *)
(* answer is the index of an entry of its citation sequence, and the       *)
(* indices of that sequence are exactly 1..(number of sources presented).  *)
C9_CitationConsistency ==
    (SynthCalled /\ ~tcall.ret.raised) =>
        LET a == tcall.ret.value
        IN /\ CitedIn(a.content) \subseteq IndicesOf(a.sources)
           /\ "error" \notin DOMAIN a =>
                IndicesOf(a.sources) = 1..Min(Len(GivenResults), SynthLimit)

-----------------------------------------------------------------------------
(* Properties of merge (SpecMerge) *)

Merging == tcall.tool = "merge"

\* all batches as one
RECURSIVE Flatten(_)
Flatten(batches) ==
    IF batches = <<>> THEN <<>> ELSE Head(batches) \o Flatten(Tail(batches))

\* the candidates of a batch that carry a URL
WithUrl(cs) == {cs[i] : i \in {j \in 1..Len(cs) : "url" \in DOMAIN cs[j]}}

\* what a ranked entry is to the caller: its identity, score and backend
Key(c) == [id |-> Identity(c), score |-> c.relevance_score, source |-> c.source]

Keys(set) == {Key(set[i]) : i \in 1..Len(set)}

\* the same entries in the same order, but for the order among equal scores
SameUpToTies(s, t) ==
    /\ Len(s) = Len(t)
    /\ Keys(s) = Keys(t)
    /\ \A i \in 1..Len(s) : s[i].relevance_score = t[i].relevance_score

\* candidates of one identity carry one score and one backend
Agree(cs) ==
    \A c, d \in WithUrl(cs) : Identity(c) = Identity(d) => Key(c) = Key(d)

\* the cap truncates nothing of these candidates
Fits(cs, cap) == Cardinality(WithUrl(cs)) <= cap

AThenB == Merge(Merge(<<>>, tcall.batches[1], tcall.cap), tcall.batches[2], tcall.cap)

BThenA == Merge(Merge(<<>>, tcall.batches[2], tcall.cap), tcall.batches[1], tcall.cap)

TwoBatches == Merging /\ Len(tcall.batches) = 2

Earlier == SubSeq(tcall.batches, 1, Len(tcall.batches) - 1)

SingleMerge == Merge(<<>>, Flatten(tcall.batches), tcall.cap)

Merged == Merging /\ tcall.batches # <<>>

\* the batch of the last merge
Incoming == tcall.batches[Len(tcall.batches)]

MergedAgain == Merge(tcall.set, Incoming, tcall.cap)

NoDuplicates(set) ==
    \A i, j \in 1..Len(set) : Identity(set[i]) = Identity(set[j]) => i = j

\* every candidate inserted so far, in insertion order
Inserted == Flatten(tcall.batches)

\* the earliest inserted candidate of the identity of e
Earliest(e) ==
    Inserted[CHOOSE i \in 1..Len(Inserted) :
                /\ "url" \in DOMAIN Inserted[i]
                /\ Identity(Inserted[i]) = Identity(e)
                /\ \A j \in 1..(i - 1) :
                      "url" \in DOMAIN Inserted[j] => Identity(Inserted[j]) # Identity(e)]

EarliestRetained == \A i \in 1..Len(tcall.set) : tcall.set[i] = Earliest(tcall.set[i])

Offered == tcall.before \o Incoming

\* the first position of the identity of e among the offered candidates
FirstOffer(e) ==
    CHOOSE i \in 1..Len(Offered) :
        /\ "url" \in DOMAIN Offered[i]
        /\ Identity(Offered[i]) = Identity(e)
        /\ \A j \in 1..(i - 1) :
              "url" \in DOMAIN Offered[j] => Identity(Offered[j]) # Identity(e)

\* the deduplicated union of existing and incoming: the first of each identity
Union == {c \in WithUrl(Offered) : c = Offered[FirstOffer(c)]}

\* c ranks before d: the higher score, and among equal scores the earlier
RanksBefore(c, d) ==
    \/ c.relevance_score > d.relevance_score
    \/ c.relevance_score = d.relevance_score /\ FirstOffer(c) < FirstOffer(d)

(* C16: the result of a merge holds at most cap entries, sorted by score   *)
(* descending with ties in insertion order, and they are exactly the       *)
(* top-cap entries of the deduplicated union of existing and incoming.     *)
C16_CapEnforced ==
    Merged =>
        LET set == tcall.set
        IN /\ Len(set) = Min(tcall.cap, Cardinality(Union))
           /\ \A i \in 1..Len(set) : set[i] \in Union
           /\ \A i, j \in 1..Len(set) : i < j => RanksBefore(set[i], set[j])
           /\ \A c \in Union :
                 (\A i \in 1..Len(set) : set[i] # c) =>
                     \A i \in 1..Len(set) : RanksBefore(set[i], c)

\* three candidates for two places: the best goes first, the later of two
\* equal scores is cut
C16_Witness ==
    /\ Merged
    /\ tcall.cap = 2
    /\ tcall.before = <<G2>>
    /\ Incoming = <<G3, X1>>
    /\ tcall.set = <<X1, G2>>

-----------------------------------------------------------------------------
(* Properties of one SEARCHING step (Spec) *)

\* every call of the step has completed and the step is about to be merged
StepComplete == phase = "SEARCHING" /\ CanMerge

\* every order in which the calls of the step could have completed
CompletionOrders ==
    LET n == Len(returned)
        perms == {p \in [1..n -> 1..n] : \A i, j \in 1..n : p[i] = p[j] => i = j}
    IN {[i \in 1..n |-> returned[p[i]]] : p \in perms}

\* the RankedResultSet after the step, had the calls completed in that order
AfterStep(order) == MergeAll(ranked, order)

KeySeq(set) == [i \in 1..Len(set) |-> Key(set[i])]

RECURSIVE ResultsOf(_)
ResultsOf(rets) ==
    IF rets = <<>> THEN <<>> ELSE Head(rets).results \o ResultsOf(Tail(rets))

-----------------------------------------------------------------------------
(* Properties of DuckDuckGoSearchService (SpecSearch) *)

Searched == tcall.tool \in {"search", "search_with_keywords"}

\* the items the provider was asked for
Asked == Take(tcall.provider.items, Min(tcall.num_results, DdgLimit))

(* C18: a search that finds nothing returns an empty sequence without      *)
(* raising; when the provider call fails, search and search_with_keywords  *)
(* fail with an error that identifies the backend and carries the cause,   *)
(* and never return a result list, empty or not, in place of the failure.  *)
C18_SearchFailure ==
    Searched =>
        /\ tcall.provider.raised =>
              /\ tcall.ret.raised
              /\ tcall.ret.error.message[1] = "DuckDuckGo Search error: "
              /\ tcall.ret.error.message[2] = tcall.provider.cause
              /\ tcall.ret.error.cause = tcall.provider.cause
        /\ (~tcall.provider.raised /\ tcall.provider.items = <<>>) =>
              (~tcall.ret.raised /\ tcall.ret.value = <<>>)
        /\ ~tcall.ret.raised =>
              /\ ~tcall.provider.raised
              /\ Len(tcall.ret.value) = Len(Asked)
              /\ \A i \in 1..Len(Asked) :
                    /\ tcall.ret.value[i].source = "duckduckgo"
                    /\ tcall.ret.value[i].url = Get(Asked[i], "href", "")

\* search_with_keywords, two keywords, and the provider is rate limited
C18_Witness ==
    /\ tcall.tool = "search_with_keywords"
    /\ Len(tcall.keywords) = 2
    /\ tcall.provider = ProviderFailed("ratelimit")
    /\ tcall.ret.raised
    /\ tcall.ret.error.cause = "ratelimit"

-----------------------------------------------------------------------------
(* Properties of concurrent queries (SpecQueries) *)

Accepted == {q \in QueryIds : tasks[q].pc # "idle"}

\* what the query's tools return when it runs alone with the same outcomes
RunAlone(t) ==
    [i \in 1..Len(t.outcomes) |-> ToolReturn(Stages[i], t.query, t.outcomes[i])]

-----------------------------------------------------------------------------
(* Termination of the pipeline (SpecLive) *)

NonTerminal == {"PLANNING", "SEARCHING", "SYNTHESIZING"}

Terminal == {"DONE", "FAILED"}

\* every external call returns or times out, and the orchestrator takes the
\* step that is ready; the last conjunct is WF_vars(MergeStep) with the
\* enabling condition of MergeStep written out
SpecLive ==
    /\ Spec
    /\ WF_vars(Plan)
    /\ WF_vars(ScheduleStep)
    /\ WF_vars(CompleteCall)
    /\ WF_vars(FinishSearch)
    /\ WF_vars(Synthesize)
    /\ ([]<>~(phase = "SEARCHING" /\ CanMerge) \/ []<><<MergeStep>>_vars)

Forward ==
    {<<"PLANNING", "SEARCHING">>, <<"SEARCHING", "SYNTHESIZING">>,
     <<"SYNTHESIZING", "DONE">>}

C20_Move ==
    /\ (phase \in NonTerminal /\ phase' # phase) =>
          (<<phase, phase'>> \in Forward \/ phase' = "FAILED")
    /\ phase \in Terminal =>
          /\ phase' = phase
          /\ <<plan, ranked, answer, audit, failure>>' = <<plan, ranked, answer, audit, failure>>

(* C20: given that every external call returns or times out, every         *)
(* accepted query eventually reaches DONE or FAILED; it moves only along   *)
(* PLANNING -> SEARCHING -> SYNTHESIZING -> DONE or from a non-terminal    *)
(* state to FAILED, and once in DONE or FAILED it never changes again.     *)
C20_Termination ==
    /\ [][C20_Move]_vars
    /\ (phase \in NonTerminal) ~> (phase \in Terminal)

\* a query with two search steps over two backends is DONE and answered
C20_Witness ==
    /\ phase = "DONE"
    /\ response # None
    /\ Len(Steps) = 2
    /\ Cardinality(SearchCalls) = 4
    /\ calls.synth = 1

-----------------------------------------------------------------------------
(* ErrorHandlingMiddleware.dispatch *)

\* the classes an exception of the handler may have, each with its bases
Bases(cls) ==
    CASE cls = "ValueError" -> {"ValueError", "Exception", "BaseException"}
      [] cls = "UnicodeDecodeError" ->
            {"UnicodeDecodeError", "ValueError", "Exception", "BaseException"}
      [] cls = "PermissionError" ->
            {"PermissionError", "OSError", "Exception", "BaseException"}
      [] cls = "FileNotFoundError" ->
            {"FileNotFoundError", "OSError", "Exception", "BaseException"}
      [] cls = "OSError" -> {"OSError", "Exception", "BaseException"}
      [] cls = "KeyError" -> {"KeyError", "LookupError", "Exception", "BaseException"}
      [] cls = "RuntimeError" -> {"RuntimeError", "Exception", "BaseException"}
      [] cls = "CancelledError" -> {"CancelledError", "BaseException"}
      [] cls = "KeyboardInterrupt" -> {"KeyboardInterrupt", "BaseException"}
      [] OTHER -> {cls, "BaseException"}

ExceptionClasses ==
    {"ValueError", "UnicodeDecodeError", "PermissionError", "FileNotFoundError",
     "OSError", "KeyError", "RuntimeError", "CancelledError", "KeyboardInterrupt"}

\* except cls as e: matches an exception of that class or of a subclass
Caught(e, cls) == cls \in Bases(e.cls)

\* what await call_next(request) does: it returns a response, or raises
HandlerReturned(resp) == [raised |-> FALSE, response |-> resp]
HandlerRaised(cls, msg) == [raised |-> TRUE, exc |-> [cls |-> cls, msg |-> msg]]

\* JSONResponse(status_code=..., content={"error", "message", "details"})
JSONResponse(status_code, error, message, details) ==
    [status |-> status_code,
     body |-> [error |-> error, message |-> message, details |-> details]]

\* what dispatch does: it returns a response, or the exception goes on
DispatchReturned(resp) == [raised |-> FALSE, value |-> resp]
DispatchRaised(e) == [raised |-> TRUE, exc |-> e]

\* every exception is answered as an internal error
DispatchAllInternal(req, handler) ==
    IF ~handler.raised THEN DispatchReturned(handler.response)
    ELSE IF Caught(handler.exc, "Exception")
    THEN DispatchReturned(JSONResponse(500, "InternalServerError",
                                       "An unexpected error occurred",
                                       Some(handler.exc.msg)))
    ELSE DispatchRaised(handler.exc)

Dispatch(req, handler) ==
    IF ~handler.raised THEN DispatchReturned(handler.response)
    ELSE LET e == handler.exc
         IN IF Caught(e, "ValueError")
            THEN DispatchReturned(JSONResponse(400, "ValidationError", e.msg, None))
            ELSE IF Caught(e, "PermissionError")
            THEN DispatchReturned(JSONResponse(403, "PermissionError", e.msg, None))
            ELSE IF Caught(e, "FileNotFoundError")
            THEN DispatchReturned(JSONResponse(404, "NotFoundError", e.msg, None))
            ELSE IF Caught(e, "Exception")
            THEN DispatchReturned(JSONResponse(500, "InternalServerError",
                                               "An unexpected error occurred",
                                               Some(e.msg)))
            ELSE DispatchRaised(e)

Requests == {[method |-> m, path |-> p] : m \in {"GET", "POST"},
                                           p \in {"/research", "/health"}}

\* responses of the handler, error responses of its own among them
HandlerResponses ==
    {[status |-> st, body |-> b] :
        st \in {200, 404, 500},
        b \in {[content |-> "q"],
               [error |-> "ValidationError", message |-> "m", details |-> None]}}

Messages == {"", "m", "not found"}

HandlerOutcomes ==
    {HandlerReturned(r) : r \in HandlerResponses}
    \cup {HandlerRaised(cls, msg) : cls \in ExceptionClasses, msg \in Messages}

(* a request goes through the middleware *)
InvokeDispatch ==
    /\ tcall = Idle
    /\ \E req \in Requests, handler \in HandlerOutcomes :
          tcall' = [tool |-> "dispatch", request |-> req, handler |-> handler,
                    ret |-> Dispatch(req, handler)]
    /\ UNCHANGED pipelineVars

SpecDispatch == ToolInit /\ [][InvokeDispatch]_vars

-----------------------------------------------------------------------------
(* Properties of ErrorHandlingMiddleware.dispatch (SpecDispatch) *)

Dispatched == tcall.tool = "dispatch"

\* the status the claim gives to an exception of that class
StatusFor(cls) ==
    IF "ValueError" \in Bases(cls) THEN 400
    ELSE IF "PermissionError" \in Bases(cls) THEN 403
    ELSE IF "FileNotFoundError" \in Bases(cls) THEN 404
    ELSE 500

ErrorFor(cls) ==
    IF "ValueError" \in Bases(cls) THEN "ValidationError"
    ELSE IF "PermissionError" \in Bases(cls) THEN "PermissionError"
    ELSE IF "FileNotFoundError" \in Bases(cls) THEN "NotFoundError"
    ELSE "InternalServerError"

\* the exception was answered with the JSON body of its class
AnsweredAsError ==
    /\ ~tcall.ret.raised
    /\ tcall.ret.value.status = StatusFor(tcall.handler.exc.cls)
    /\ DOMAIN tcall.ret.value.body = {"error", "message", "details"}
    /\ tcall.ret.value.body.error = ErrorFor(tcall.handler.exc.cls)

PassedThrough == ~tcall.ret.raised /\ tcall.ret.value = tcall.handler.response

=============================================================================
